---- MODULE Spec2Model ----
(***************************************************************************)
(* Model of config_updater (src/src/lib.rs): ConfigMonitor<T> loads a JSON *)
(* file into an Arc<Mutex<T>> at construction; monitor() spawns a task     *)
(* that polls the file's modification time (whole seconds) and, when it    *)
(* differs from the last one seen, reloads the file and replaces the value *)
(* under the lock.  Every unwrap() of the source is a panic: in new() it   *)
(* unwinds into the caller, in the spawned task it ends the task and the   *)
(* JoinHandle resolves to Err(JoinError).                                  *)
(*                                                                         *)
(* The file system, the clock and the readers holding the data() handle    *)
(* are the environment.  T is modelled as a struct of two numeric fields,  *)
(* so that a replace is a write of more than one word.                     *)
(***************************************************************************)
EXTENDS Integers, Sequences, FiniteSets, TLC

\* ---------------------------------------------------------------- bounds
NumConfigs  == 2    \* distinct well-formed file contents
NumReaders  == 1    \* tasks holding a clone of the data() handle
MaxTime     == 4    \* the clock stops after this many ticks
MaxWrites   == 2    \* file-system operations the environment performs
TicksPerSec == 2    \* clock ticks per second (sub-second resolution of mtime)

\* ------------------------------------------------------ program constants
DefaultDelay == 300 \* recheck_delay_seconds.unwrap_or(300)

Readers == 1..NumReaders
Watcher == 0        \* the spawned task, as a holder of the lock

\* Bytes of the file: '{' = 123, '}' = 125, '0'..'9' = 48..57.
LBrace == 123
RBrace == 125
Digit0 == 48

\* The serialisation of a T with fields id and port.
Encode(i, p) == <<LBrace, Digit0 + i, Digit0 + p, RBrace>>

\* A file cut short in the middle of an edit, as "{id:" in the README scenario.
Truncated == <<LBrace, Digit0 + 1>>

Contents == {Encode(d, d) : d \in 1..NumConfigs} \cup {Truncated}

IsDigit(b) == b >= Digit0 /\ b <= Digit0 + 9

\* serde_json::from_reader(reader): Ok(T) or Err.
Decode(bytes) ==
    IF /\ Len(bytes) = 4
       /\ bytes[1] = LBrace
       /\ bytes[4] = RBrace
       /\ IsDigit(bytes[2])
       /\ IsDigit(bytes[3])
    THEN [ok |-> TRUE, val |-> [id |-> bytes[2] - Digit0, port |-> bytes[3] - Digit0]]
    ELSE [ok |-> FALSE, val |-> [id |-> 0, port |-> 0]]

NoValue == [id |-> 0, port |-> 0]   \* no T exists (before construction)

\* The path names no file.
NoFile == [exists |-> FALSE, content |-> <<>>, mtime |-> 0]

\* Option<u64> arguments of new() that are tried.
DelayOptions == {<<"None">>, <<"Some", 0>>, <<"Some", 1>>}

\* Two ConfigMonitor values of one program, and the paths they can be given.
Monitors == {"m1", "m2"}
Paths == {"a.json", "b.json"}

VARIABLES
    file,        \* [exists, content, mtime]: the monitored file; mtime in ticks
    now,         \* the clock, in ticks
    writes,      \* file-system operations performed so far
    phase,       \* the caller: "init", "constructed", "monitoring", "new_panicked"
    recheck_delay_seconds,
    delayArg,    \* history: the Option<u64> that new() was called with
    store,       \* the T inside Arc<Mutex<T>>
    lockQueue,   \* tokio Mutex: FIFO of the tasks that called lock(); the head holds it
    wpc,         \* the spawned task's position
    file_last_modified,    \* local of the task (line 69)
    data,        \* local of the task (line 77)
    wakeAt,      \* deadline of the pending sleep_until
    joinResult,  \* what the JoinHandle resolves to: "none", "pending", "Err", "Ok"
    panicAt,     \* the unwrap() that ended the task: "none", "start", "check", "load"
    handle,      \* data() has been called and its Arc cloned into the reader tasks
    rpc,         \* each reader's position: "idle", "waiting", "holding"
    seen,        \* the value each reader reads through the guard it holds
    ctorFile,    \* history: the file as it was when new() ran
    published,   \* history: the values put into the store, in order
    seenVer,     \* history: how many values had been published when the reader read
    newestSeen,  \* history: the newest published value any reader has read (its index)
    infoCount,   \* history: info! lines emitted
    loadCount,   \* history: calls of load_file by the task
    lastWriteChangedTs, \* history: the last write moved the whole-second timestamp
    checkedSinceWrite,  \* history: line 72 has run since the last file-system operation
    pFiles,      \* two monitors: the file at each path
    pFilename,   \* two monitors: each instance's filename field
    pData,       \* two monitors: each instance's data field, an address in heap
    heap,        \* two monitors: the values that the Arc::new calls have allocated
    pLast,       \* two monitors: each task's file_last_modified
    pPc          \* two monitors: each instance's position

vars == <<file, now, writes, phase, delayArg, recheck_delay_seconds, store,
          lockQueue, wpc,
          file_last_modified, data, wakeAt, joinResult, panicAt, handle, rpc, seen,
          ctorFile,
          published, seenVer, newestSeen, infoCount, loadCount, lastWriteChangedTs,
          checkedSinceWrite, pFiles, pFilename, pData, heap, pLast, pPc>>

fsVars     == <<file, writes, lastWriteChangedTs>>
callerVars == <<phase, recheck_delay_seconds, delayArg, ctorFile, handle>>
storeVars  == <<store, lockQueue, published>>
taskVars   == <<wpc, file_last_modified, data, wakeAt, joinResult, panicAt, infoCount,
                loadCount>>
readVars   == <<rpc, seen, seenVer, newestSeen>>
pairVars   == <<pFiles, pFilename, pData, heap, pLast, pPc>>

\* ------------------------------------------------------------ file system
\* Duration::as_secs of mtime.duration_since(UNIX_EPOCH).
AsSecs(ticks) == ticks \div TicksPerSec

\* Mutant of FileLastModified: a failed read counts as time 0 (unwrap_or_default).
FileLastModifiedOrZero(f) ==
    IF ~f.exists \/ f.mtime < 0 THEN [ok |-> TRUE, secs |-> 0]
    ELSE [ok |-> TRUE, secs |-> AsSecs(f.mtime)]

\* file_last_modified(): Ok(seconds), or the unwrap that fails.
FileLastModified(f) ==
    IF ~f.exists THEN [ok |-> FALSE, secs |-> 0]          \* File::open fails
    ELSE IF f.mtime < 0 THEN [ok |-> FALSE, secs |-> 0]   \* duration_since fails
    ELSE [ok |-> TRUE, secs |-> AsSecs(f.mtime)]

\* load_file(): Ok(T), or the unwrap that fails.
LoadFile(f) ==
    IF ~f.exists THEN [ok |-> FALSE, val |-> NoValue]     \* File::open fails
    ELSE Decode(f.content)

InitAt(t) ==
    /\ file \in [exists : {TRUE}, content : Contents, mtime : {0}] \cup {NoFile}
    /\ now = t
    /\ writes = 0
    /\ phase = "init"
    /\ recheck_delay_seconds = 0
    /\ delayArg = <<"None">>
    /\ store = NoValue
    /\ lockQueue = <<>>
    /\ wpc = "unspawned"
    /\ file_last_modified = 0
    /\ data = NoValue
    /\ wakeAt = 0
    /\ joinResult = "none"
    /\ panicAt = "none"
    /\ handle = FALSE
    /\ rpc = [r \in Readers |-> "idle"]
    /\ seen = [r \in Readers |-> NoValue]
    /\ ctorFile = NoFile
    /\ published = <<>>
    /\ seenVer = [r \in Readers |-> 0]
    /\ newestSeen = 0
    /\ infoCount = 0
    /\ loadCount = 0
    /\ lastWriteChangedTs = FALSE
    /\ checkedSinceWrite = FALSE
    /\ pFiles = [p \in Paths |-> [exists |-> TRUE, content |-> Encode(1, 1), mtime |-> 0]]
    /\ pFilename = [m \in Monitors |-> ""]
    /\ pData = [m \in Monitors |-> 0]
    /\ heap = <<>>
    /\ pLast = [m \in Monitors |-> 0]
    /\ pPc = [m \in Monitors |-> "none"]

\* The program is started in the instant the file was last written.
Init == InitAt(0)

\* ------------------------------------------------------------ environment
Tick ==
    /\ now < MaxTime
    /\ now' = now + 1
    /\ UNCHANGED <<fsVars, checkedSinceWrite, callerVars, storeVars, taskVars, readVars,
                   pairVars>>

\* Some process writes the file: the file system stamps it with the clock.
WriteFile(c) ==
    /\ writes < MaxWrites
    /\ file' = [exists |-> TRUE, content |-> c, mtime |-> now]
    /\ writes' = writes + 1
    /\ lastWriteChangedTs' = (FileLastModified(file).ok /\ AsSecs(now) # AsSecs(file.mtime))
    /\ checkedSinceWrite' = FALSE
    /\ UNCHANGED <<now, callerVars, storeVars, taskVars, readVars, pairVars>>

DeleteFile ==
    /\ writes < MaxWrites
    /\ file.exists
    /\ file' = NoFile
    /\ writes' = writes + 1
    /\ lastWriteChangedTs' = FALSE
    /\ checkedSinceWrite' = FALSE
    /\ UNCHANGED <<now, callerVars, storeVars, taskVars, readVars, pairVars>>

\* utimes() with a time before the epoch.
TouchPreEpoch ==
    /\ writes < MaxWrites
    /\ file.exists
    /\ file.mtime >= 0
    /\ file' = [file EXCEPT !.mtime = -1]
    /\ writes' = writes + 1
    /\ lastWriteChangedTs' = FALSE
    /\ checkedSinceWrite' = FALSE
    /\ UNCHANGED <<now, callerVars, storeVars, taskVars, readVars, pairVars>>

\* ------------------------------------------------------------ the caller
\* Mutant of New: the file is not loaded at construction; the store starts with a
\* default T and is left for the task to fill.
NewDeferred(opt) ==
    /\ phase = "init"
    /\ ctorFile' = file
    /\ delayArg' = opt
    /\ IF LoadFile(file).ok
       THEN /\ phase' = "constructed"
            /\ recheck_delay_seconds' = IF opt[1] = "Some" THEN opt[2] ELSE DefaultDelay
            /\ store' = NoValue
            /\ published' = <<NoValue>>
       ELSE /\ phase' = "new_panicked"
            /\ UNCHANGED <<recheck_delay_seconds, store, published>>
    /\ UNCHANGED <<fsVars, now, checkedSinceWrite, handle, lockQueue, taskVars, readVars,
                   pairVars>>

\* Mutant of New: a failed load falls back to a default T (unwrap_or_default).
NewFallback(opt) ==
    /\ phase = "init"
    /\ ctorFile' = file
    /\ delayArg' = opt
    /\ LET r == LoadFile(file) IN
       /\ phase' = "constructed"
       /\ recheck_delay_seconds' = IF opt[1] = "Some" THEN opt[2] ELSE DefaultDelay
       /\ store' = r.val
       /\ published' = <<r.val>>
    /\ UNCHANGED <<fsVars, now, checkedSinceWrite, handle, lockQueue, taskVars, readVars,
                   pairVars>>

\* ConfigMonitor::new(filename, recheck_delay_seconds)
New(opt) ==
    /\ phase = "init"
    /\ ctorFile' = file
    /\ delayArg' = opt
    /\ LET r == LoadFile(file) IN
       IF r.ok
       THEN /\ phase' = "constructed"
            /\ recheck_delay_seconds' = IF opt[1] = "Some" THEN opt[2] ELSE DefaultDelay
            /\ store' = r.val
            /\ published' = <<r.val>>
       ELSE /\ phase' = "new_panicked"
            /\ UNCHANGED <<recheck_delay_seconds, store, published>>
    /\ UNCHANGED <<fsVars, now, checkedSinceWrite, handle, lockQueue, taskVars, readVars,
                   pairVars>>

\* config_monitor.data(): the Arc is cloned, for the reader tasks to share
DataHandle ==
    /\ phase = "constructed"
    /\ ~handle
    /\ handle' = TRUE
    /\ UNCHANGED <<fsVars, now, checkedSinceWrite, phase, recheck_delay_seconds, delayArg,
                   ctorFile,
                   storeVars, taskVars, readVars, pairVars>>

\* Mutant of Monitor: monitor(&self) borrows the monitor, so it can be called again.
MonitorBorrowing ==
    /\ phase \in {"constructed", "monitoring"}
    /\ phase' = "monitoring"
    /\ wpc' = "start"
    /\ joinResult' = "pending"
    /\ UNCHANGED <<fsVars, now, checkedSinceWrite, recheck_delay_seconds, delayArg,
                   ctorFile, handle, storeVars, file_last_modified, data, wakeAt,
                   panicAt, infoCount, loadCount, readVars, pairVars>>

\* config_monitor.monitor(): consumes the monitor and spawns the task
Monitor ==
    /\ phase = "constructed"
    /\ phase' = "monitoring"
    /\ wpc' = "start"
    /\ joinResult' = "pending"
    /\ UNCHANGED <<fsVars, now, checkedSinceWrite, recheck_delay_seconds, delayArg,
                   ctorFile, handle, storeVars, file_last_modified, data, wakeAt,
                   panicAt, infoCount, loadCount, readVars, pairVars>>

\* --------------------------------------------------------------- the lock
\* Mutant of HoldsLock: nobody waits for its turn.
HoldsLockAlways(p) == TRUE

\* tokio::sync::Mutex grants the lock in the order of the lock() calls.
HoldsLock(p) == lockQueue # <<>> /\ Head(lockQueue) = p

\* The guard is dropped.
Release(p) == SelectSeq(lockQueue, LAMBDA q : q # p)

\* --------------------------------------------------- the spawned task
\* A failed unwrap() inside the task: the task ends, the handle yields Err.
Panic(site) ==
    /\ wpc' = "panicked"
    /\ joinResult' = "Err"
    /\ panicAt' = site

\* Mutant of Changed: every poll reloads.
ChangedAlways(last, recent) == TRUE

\* line 74: if file_last_modified != file_recent_modified
Changed(last, recent) == last # recent

\* line 69: let mut file_last_modified = self.file_last_modified();
WatcherStart ==
    /\ wpc = "start"
    /\ LET r == FileLastModified(file) IN
       IF r.ok
       THEN /\ file_last_modified' = r.secs
            /\ wpc' = "check"
            /\ UNCHANGED <<joinResult, panicAt>>
       ELSE /\ Panic("start")
            /\ UNCHANGED file_last_modified
    /\ UNCHANGED <<fsVars, now, checkedSinceWrite, callerVars, storeVars, data, wakeAt,
                   infoCount, loadCount, readVars, pairVars>>

\* Mutant of WatcherCheck: the info! line is left out.
WatcherCheckSilent ==
    /\ wpc = "check"
    /\ checkedSinceWrite' = TRUE
    /\ LET r == FileLastModified(file) IN
       IF ~r.ok
       THEN /\ Panic("check")
            /\ UNCHANGED file_last_modified
       ELSE IF Changed(file_last_modified, r.secs)
       THEN /\ file_last_modified' = r.secs
            /\ wpc' = "load"
            /\ UNCHANGED <<joinResult, panicAt>>
       ELSE /\ wpc' = "sleep"
            /\ UNCHANGED <<file_last_modified, joinResult, panicAt>>
    /\ UNCHANGED <<fsVars, now, callerVars, storeVars, data, wakeAt, infoCount, loadCount,
                   readVars, pairVars>>

\* lines 72-76: read the timestamp, compare, log, remember it
WatcherCheck ==
    /\ wpc = "check"
    /\ checkedSinceWrite' = TRUE
    /\ LET r == FileLastModified(file) IN
       IF ~r.ok
       THEN /\ Panic("check")
            /\ UNCHANGED <<file_last_modified, infoCount>>
       ELSE IF Changed(file_last_modified, r.secs)
       THEN /\ infoCount' = infoCount + 1
            /\ file_last_modified' = r.secs
            /\ wpc' = "load"
            /\ UNCHANGED <<joinResult, panicAt>>
       ELSE /\ wpc' = "sleep"
            /\ UNCHANGED <<file_last_modified, infoCount, joinResult, panicAt>>
    /\ UNCHANGED <<fsVars, now, callerVars, storeVars, data, wakeAt, loadCount, readVars,
                   pairVars>>

\* Mutant of WatcherLoad: a failed load is skipped and the loop goes on.
WatcherLoadSkipOnError ==
    /\ wpc = "load"
    /\ loadCount' = loadCount + 1
    /\ LET r == LoadFile(file) IN
       IF r.ok
       THEN /\ data' = r.val
            /\ wpc' = "lock"
       ELSE /\ wpc' = "sleep"
            /\ UNCHANGED data
    /\ UNCHANGED <<fsVars, now, checkedSinceWrite, callerVars, storeVars,
                   file_last_modified, wakeAt, joinResult, panicAt,
                   infoCount, readVars, pairVars>>

\* Mutant of WatcherLoad: lock() comes before load_file, and a failing load takes
\* the task down with its place in the lock's queue.
WatcherLoadUnderLock ==
    /\ wpc = "load"
    /\ loadCount' = loadCount + 1
    /\ LET r == LoadFile(file) IN
       IF r.ok
       THEN /\ data' = r.val
            /\ wpc' = "lock"
            /\ UNCHANGED <<joinResult, panicAt, lockQueue>>
       ELSE /\ Panic("load")
            /\ lockQueue' = Append(lockQueue, Watcher)
            /\ UNCHANGED data
    /\ UNCHANGED <<fsVars, now, checkedSinceWrite, callerVars, store, published,
                   file_last_modified, wakeAt, infoCount, readVars, pairVars>>

\* line 77: let data = Self::load_file(&self.filename);
WatcherLoad ==
    /\ wpc = "load"
    /\ loadCount' = loadCount + 1
    /\ LET r == LoadFile(file) IN
       IF r.ok
       THEN /\ data' = r.val
            /\ wpc' = "lock"
            /\ UNCHANGED <<joinResult, panicAt>>
       ELSE /\ Panic("load")
            /\ UNCHANGED data
    /\ UNCHANGED <<fsVars, now, checkedSinceWrite, callerVars, storeVars,
                   file_last_modified, wakeAt, infoCount, readVars, pairVars>>

\* line 78: config_data.lock() is called and the task waits for its turn
WatcherLock ==
    /\ wpc = "lock"
    /\ lockQueue' = Append(lockQueue, Watcher)
    /\ wpc' = "acquire"
    /\ UNCHANGED <<fsVars, now, checkedSinceWrite, callerVars, store, published,
                   file_last_modified, data, wakeAt, joinResult, panicAt,
                   infoCount, loadCount, readVars, pairVars>>

\* Mutant of WatcherWriteId: the value is written without waiting for the lock.
WatcherWriteIdUnlocked ==
    /\ wpc = "acquire"
    /\ store' = [store EXCEPT !.id = data.id]
    /\ wpc' = "write"
    /\ UNCHANGED <<fsVars, now, checkedSinceWrite, callerVars, lockQueue, published,
                   file_last_modified, data, wakeAt, joinResult, panicAt,
                   infoCount, loadCount, readVars, pairVars>>

\* Mutant of WatcherWriteId: the new value is merged into the old one (*lock += data).
WatcherWriteIdAccumulating ==
    /\ wpc = "acquire"
    /\ HoldsLock(Watcher)
    /\ store' = [store EXCEPT !.id = store.id + data.id]
    /\ wpc' = "write"
    /\ UNCHANGED <<fsVars, now, checkedSinceWrite, callerVars, lockQueue, published,
                   file_last_modified, data, wakeAt, joinResult, panicAt,
                   infoCount, loadCount, readVars, pairVars>>

\* lines 78-79: the lock is granted and *lock = data begins (first field)
WatcherWriteId ==
    /\ wpc = "acquire"
    /\ HoldsLock(Watcher)
    /\ store' = [store EXCEPT !.id = data.id]
    /\ wpc' = "write"
    /\ UNCHANGED <<fsVars, now, checkedSinceWrite, callerVars, lockQueue, published,
                   file_last_modified, data, wakeAt, joinResult, panicAt,
                   infoCount, loadCount, readVars, pairVars>>

\* Mutant of WatcherWritePort: the guard is declared outside the if block and is
\* still alive during the sleep.
WatcherWritePortKeepsGuard ==
    /\ wpc = "write"
    /\ store' = [store EXCEPT !.port = data.port]
    /\ published' = Append(published, data)
    /\ wpc' = "sleep"
    /\ UNCHANGED <<fsVars, now, checkedSinceWrite, callerVars, lockQueue,
                   file_last_modified, data, wakeAt, joinResult, panicAt,
                   infoCount, loadCount, readVars, pairVars>>

\* Mutant of WatcherWritePort: the sleep is in the else branch, and a reload is
\* followed by the next timestamp read at once.
WatcherWritePortNoSleep ==
    /\ wpc = "write"
    /\ store' = [store EXCEPT !.port = data.port]
    /\ published' = Append(published, data)
    /\ lockQueue' = Release(Watcher)
    /\ wpc' = "check"
    /\ UNCHANGED <<fsVars, now, checkedSinceWrite, callerVars, file_last_modified, data,
                   wakeAt, joinResult, panicAt, infoCount, loadCount, readVars, pairVars>>

\* lines 79-80: *lock = data completes (second field) and the guard is dropped
WatcherWritePort ==
    /\ wpc = "write"
    /\ store' = [store EXCEPT !.port = data.port]
    /\ published' = Append(published, data)
    /\ lockQueue' = Release(Watcher)
    /\ wpc' = "sleep"
    /\ UNCHANGED <<fsVars, now, checkedSinceWrite, callerVars, file_last_modified,
                   data, wakeAt, joinResult, panicAt, infoCount,
                   loadCount, readVars, pairVars>>

\* Mutant of WatcherSleep: the interval given to new() is not used, the default is.
WatcherSleepDefault ==
    /\ wpc = "sleep"
    /\ wakeAt' = now + DefaultDelay * TicksPerSec
    /\ wpc' = "sleeping"
    /\ UNCHANGED <<fsVars, now, checkedSinceWrite, callerVars, storeVars,
                   file_last_modified, data, joinResult, panicAt, infoCount, loadCount,
                   readVars, pairVars>>

\* line 82: sleep_until(Instant::now() + Duration::from_secs(delay)) is called
WatcherSleep ==
    /\ wpc = "sleep"
    /\ wakeAt' = now + recheck_delay_seconds * TicksPerSec
    /\ wpc' = "sleeping"
    /\ UNCHANGED <<fsVars, now, checkedSinceWrite, callerVars, storeVars,
                   file_last_modified, data, joinResult, panicAt, infoCount, loadCount,
                   readVars, pairVars>>

\* Mutant of WatcherWake: the loop is left after the sleep and the task returns.
WatcherWakeReturns ==
    /\ wpc = "sleeping"
    /\ now >= wakeAt
    /\ wakeAt' = 0
    /\ wpc' = "returned"
    /\ joinResult' = "Ok"
    /\ UNCHANGED <<fsVars, now, checkedSinceWrite, callerVars, storeVars,
                   file_last_modified, data, panicAt, infoCount, loadCount, readVars,
                   pairVars>>

\* lines 82-83, 71: the deadline has passed; the loop goes round
WatcherWake ==
    /\ wpc = "sleeping"
    /\ now >= wakeAt
    /\ wakeAt' = 0
    /\ wpc' = "check"
    /\ UNCHANGED <<fsVars, now, checkedSinceWrite, callerVars, storeVars,
                   file_last_modified, data, joinResult, panicAt, infoCount, loadCount,
                   readVars, pairVars>>

\* ---------------------------------------------------------------- readers
\* lines 24-25 of the crate's example: c_my_config.lock().await is called
ReaderLock(r) ==
    /\ handle
    /\ rpc[r] = "idle"
    /\ lockQueue' = Append(lockQueue, r)
    /\ rpc' = [rpc EXCEPT ![r] = "waiting"]
    /\ UNCHANGED <<fsVars, now, checkedSinceWrite, callerVars, store, published,
                   taskVars, seen, seenVer, newestSeen, pairVars>>

\* the lock is granted and the reader copies the value out of the guard
ReaderRead(r) ==
    /\ rpc[r] = "waiting"
    /\ HoldsLock(r)
    /\ seen' = [seen EXCEPT ![r] = store]
    /\ seenVer' = [seenVer EXCEPT ![r] = Len(published)]
    /\ newestSeen' = IF Len(published) > newestSeen THEN Len(published) ELSE newestSeen
    /\ rpc' = [rpc EXCEPT ![r] = "holding"]
    /\ UNCHANGED <<fsVars, now, checkedSinceWrite, callerVars, storeVars, taskVars,
                   pairVars>>

\* the guard goes out of scope
ReaderUnlock(r) ==
    /\ rpc[r] = "holding"
    /\ lockQueue' = Release(r)
    /\ seen' = [seen EXCEPT ![r] = NoValue]
    /\ seenVer' = [seenVer EXCEPT ![r] = 0]
    /\ rpc' = [rpc EXCEPT ![r] = "idle"]
    /\ UNCHANGED <<fsVars, now, checkedSinceWrite, callerVars, store, published,
                   taskVars, newestSeen, pairVars>>

\* ------------------------------------------------------------------ system
Next ==
    \/ Tick
    \/ \E c \in Contents : WriteFile(c)
    \/ DeleteFile
    \/ TouchPreEpoch
    \/ \E opt \in DelayOptions : New(opt)
    \/ DataHandle
    \/ Monitor
    \/ WatcherStart
    \/ WatcherCheck
    \/ WatcherLoad
    \/ WatcherLock
    \/ WatcherWriteId
    \/ WatcherWritePort
    \/ WatcherSleep
    \/ WatcherWake
    \/ \E r \in Readers : ReaderLock(r)
    \/ \E r \in Readers : ReaderRead(r)
    \/ \E r \in Readers : ReaderUnlock(r)

Spec == Init /\ [][Next]_vars

\* The runtime polls a task that can proceed: a task granted the lock reads or
\* writes and drops the guard.
Fairness ==
    /\ \A r \in Readers : WF_vars(ReaderRead(r)) /\ WF_vars(ReaderUnlock(r))
    /\ WF_vars(WatcherWriteId)
    /\ WF_vars(WatcherWritePort)

\* The program is started when the file has not been written for a while.
LiveInit == InitAt(MaxTime - 1)

LiveSpec == LiveInit /\ [][Next]_vars /\ Fairness

\* ------------------------------------------------------------ two monitors
\* Two ConfigMonitor values in one program, each with the steps of new() and of
\* its task at the grain of the statements that touch a file or a store.  The
\* sleep is left open-ended and the readers are left out; every write of a file
\* happens in a second of its own.

\* The T behind an instance's Arc<Mutex<T>>.
StoreOf(m) == IF pData[m] = 0 THEN NoValue ELSE heap[pData[m]]

\* What the claim of isolation speaks of: stored value, lastSeen, task state.
MonState(m) == <<StoreOf(m), pLast[m], pPc[m]>>

soloVars == <<file, lastWriteChangedTs, checkedSinceWrite, callerVars, storeVars, taskVars,
              readVars>>

PairInit == InitAt(0) /\ file = NoFile

PWriteFile(path, c) ==
    /\ writes < MaxWrites
    /\ writes' = writes + 1
    /\ pFiles' = [pFiles EXCEPT ![path] =
                     [exists |-> TRUE, content |-> c, mtime |-> (writes + 1) * TicksPerSec]]
    /\ UNCHANGED <<now, soloVars, pFilename, pData, heap, pLast, pPc>>

PDeleteFile(path) ==
    /\ writes < MaxWrites
    /\ pFiles[path].exists
    /\ writes' = writes + 1
    /\ pFiles' = [pFiles EXCEPT ![path] = NoFile]
    /\ UNCHANGED <<now, soloVars, pFilename, pData, heap, pLast, pPc>>

\* Mutant of PNew: the value lives in one static Mutex that every instance uses.
PNewSharedStore(m, path) ==
    /\ pPc[m] = "none"
    /\ pFilename' = [pFilename EXCEPT ![m] = path]
    /\ LET r == LoadFile(pFiles[path]) IN
       IF r.ok
       THEN /\ heap' = <<r.val>>
            /\ pData' = [pData EXCEPT ![m] = 1]
            /\ pPc' = [pPc EXCEPT ![m] = "constructed"]
       ELSE /\ pPc' = [pPc EXCEPT ![m] = "new_panicked"]
            /\ UNCHANGED <<heap, pData>>
    /\ UNCHANGED <<now, writes, soloVars, pFiles, pLast>>

\* ConfigMonitor::new(path, _): the value is loaded into an Arc of its own
PNew(m, path) ==
    /\ pPc[m] = "none"
    /\ pFilename' = [pFilename EXCEPT ![m] = path]
    /\ LET r == LoadFile(pFiles[path]) IN
       IF r.ok
       THEN /\ heap' = Append(heap, r.val)
            /\ pData' = [pData EXCEPT ![m] = Len(heap) + 1]
            /\ pPc' = [pPc EXCEPT ![m] = "constructed"]
       ELSE /\ pPc' = [pPc EXCEPT ![m] = "new_panicked"]
            /\ UNCHANGED <<heap, pData>>
    /\ UNCHANGED <<now, writes, soloVars, pFiles, pLast>>

\* monitor(): the task is spawned, with the instance moved into it
PMonitor(m) ==
    /\ pPc[m] = "constructed"
    /\ pPc' = [pPc EXCEPT ![m] = "start"]
    /\ UNCHANGED <<now, writes, soloVars, pFiles, pFilename, pData, heap, pLast>>

\* line 69
PStart(m) ==
    /\ pPc[m] = "start"
    /\ LET r == FileLastModified(pFiles[pFilename[m]]) IN
       IF r.ok
       THEN /\ pLast' = [pLast EXCEPT ![m] = r.secs]
            /\ pPc' = [pPc EXCEPT ![m] = "check"]
       ELSE /\ pPc' = [pPc EXCEPT ![m] = "panicked"]
            /\ UNCHANGED pLast
    /\ UNCHANGED <<now, writes, soloVars, pFiles, pFilename, pData, heap>>

\* lines 72-76
PCheck(m) ==
    /\ pPc[m] = "check"
    /\ LET r == FileLastModified(pFiles[pFilename[m]]) IN
       IF ~r.ok
       THEN /\ pPc' = [pPc EXCEPT ![m] = "panicked"]
            /\ UNCHANGED pLast
       ELSE IF Changed(pLast[m], r.secs)
       THEN /\ pLast' = [pLast EXCEPT ![m] = r.secs]
            /\ pPc' = [pPc EXCEPT ![m] = "load"]
       ELSE /\ pPc' = [pPc EXCEPT ![m] = "sleeping"]
            /\ UNCHANGED pLast
    /\ UNCHANGED <<now, writes, soloVars, pFiles, pFilename, pData, heap>>

\* lines 77-80: load, lock the instance's own Mutex, replace, unlock
PReload(m) ==
    /\ pPc[m] = "load"
    /\ LET r == LoadFile(pFiles[pFilename[m]]) IN
       IF r.ok
       THEN /\ heap' = [heap EXCEPT ![pData[m]] = r.val]
            /\ pPc' = [pPc EXCEPT ![m] = "sleeping"]
       ELSE /\ pPc' = [pPc EXCEPT ![m] = "panicked"]
            /\ UNCHANGED heap
    /\ UNCHANGED <<now, writes, soloVars, pFiles, pFilename, pData, pLast>>

\* lines 82-83, 71: the sleep ends
PWake(m) ==
    /\ pPc[m] = "sleeping"
    /\ pPc' = [pPc EXCEPT ![m] = "check"]
    /\ UNCHANGED <<now, writes, soloVars, pFiles, pFilename, pData, heap, pLast>>

PairNext ==
    \/ \E path \in Paths, c \in Contents : PWriteFile(path, c)
    \/ \E path \in Paths : PDeleteFile(path)
    \/ \E m \in Monitors, path \in Paths : PNew(m, path)
    \/ \E m \in Monitors : PMonitor(m)
    \/ \E m \in Monitors : PStart(m)
    \/ \E m \in Monitors : PCheck(m)
    \/ \E m \in Monitors : PReload(m)
    \/ \E m \in Monitors : PWake(m)

PairSpec == PairInit /\ [][PairNext]_vars

\* ================================================================ claims
Range(q) == {q[i] : i \in 1..Len(q)}

\* What serde_json makes of the bytes the file held when new() ran.
CtorDecode == Decode(ctorFile.content)

\* C1: after a construction from a well-formed file, and before monitor() has
\* spawned the task, the store, and whatever a reader reads through the data()
\* handle, is the decode of the bytes the file held when new() ran.
C1_InitialDataIsDecodeOfFile ==
    phase = "constructed" =>
        /\ CtorDecode.ok
        /\ store = CtorDecode.val
        /\ \A r \in Readers : rpc[r] = "holding" => seen[r] = CtorDecode.val

\* A reader holds the guard of a freshly constructed monitor; nothing has touched the file.
C1_Witness ==
    /\ phase = "constructed"
    /\ file = ctorFile
    /\ \E r \in Readers : rpc[r] = "holding" /\ seen[r] = Decode(file.content).val

\* C2 (as claimed): once a write has moved the file's whole-second timestamp and
\* left well-formed bytes, and the running task has read the timestamp after that
\* write and finished the iteration (it is in its sleep), the store holds the
\* decode of the new bytes.
C2_ChangeIsLoadedWithinOnePoll ==
    ( /\ wpc = "sleeping"
      /\ lastWriteChangedTs
      /\ checkedSinceWrite
      /\ Decode(file.content).ok )
    => store = Decode(file.content).val

\* C3: a poll that reads a timestamp equal to the one last seen goes straight to
\* the sleep: no load_file, no lock, no write of the store; a load is only ever
\* entered from a poll that read a different timestamp, and the store is only
\* written on the way from such a load.
C3_NoReloadWithoutTimestampChange ==
    [][ /\ ( /\ wpc = "check"
             /\ wpc' # "check"
             /\ file.exists
             /\ file.mtime >= 0
             /\ AsSecs(file.mtime) = file_last_modified )
          => ( /\ wpc' = "sleep"
               /\ store' = store
               /\ published' = published
               /\ lockQueue' = lockQueue
               /\ loadCount' = loadCount
               /\ infoCount' = infoCount )
        /\ (wpc # "load" /\ wpc' = "load") => AsSecs(file.mtime) # file_last_modified
        /\ (store' # store) => (phase = "init" \/ wpc \in {"acquire", "write"})
      ]_vars

\* The bytes were rewritten within the same second, the task has polled since,
\* and the store still holds the old value.
C3_Witness ==
    /\ wpc = "sleeping"
    /\ writes > 0
    /\ ~lastWriteChangedTs
    /\ checkedSinceWrite
    /\ file.exists
    /\ AsSecs(file.mtime) = file_last_modified
    /\ Decode(file.content).ok
    /\ Decode(file.content).val # store
    /\ loadCount = 0

\* C4: what a reader reads while it holds the guard is one whole value: the
\* latest one put into the store (by new() or by a completed replace), which is
\* the decode of some well-formed file.
C4_ReadersSeeWholeValues ==
    \A r \in Readers : rpc[r] = "holding" =>
        /\ seenVer[r] \in 1..Len(published)
        /\ seen[r] = published[seenVer[r]]
        /\ \E c \in Contents : Decode(c).ok /\ Decode(c).val = seen[r]

\* The task is half way through *lock = data, the store holds a mix of two
\* values, and a reader is waiting for the lock.
C4_Witness ==
    /\ wpc = "write"
    /\ store \notin Range(published)
    /\ store # data
    /\ \E r \in Readers : rpc[r] = "waiting"

\* C6: when the file is missing or malformed as new() runs, new() panics: no
\* store, no handle, no task, no value.
C6_FailedConstructionYieldsNothing ==
    (phase # "init" /\ (~ctorFile.exists \/ ~CtorDecode.ok)) =>
        /\ phase = "new_panicked"
        /\ store = NoValue
        /\ published = <<>>
        /\ ~handle
        /\ lockQueue = <<>>
        /\ wpc = "unspawned"
        /\ joinResult = "none"

\* new() met a malformed file; the file has since been repaired, to no effect.
C6_Witness ==
    /\ phase = "new_panicked"
    /\ ctorFile.exists
    /\ ~CtorDecode.ok
    /\ file.exists
    /\ Decode(file.content).ok

\* The positions of a task that has been spawned and has not ended.
RunningPcs == {"start", "check", "load", "lock", "acquire", "write", "sleep", "sleeping"}

\* The timestamp cannot be read: the file is gone, or older than the epoch.
TimestampUnreadable == ~file.exists \/ file.mtime < 0

\* The file cannot be loaded: it is gone, or its bytes are malformed.
FileUnloadable == ~file.exists \/ ~Decode(file.content).ok

\* C5: a load that meets a missing or malformed file ends the task and leaves the
\* store as it was; an ended task stays ended, loads no more and the store keeps
\* its value, whatever is written to the file afterwards.
C5_FailedLoadStopsReloadingForGood ==
    [][ /\ (wpc = "load" /\ wpc' # "load" /\ FileUnloadable)
            => (wpc' = "panicked" /\ store' = store /\ published' = published)
        /\ (wpc = "panicked")
            => ( /\ wpc' = "panicked"
                 /\ store' = store
                 /\ published' = published
                 /\ loadCount' = loadCount
                 /\ infoCount' = infoCount
                 /\ file_last_modified' = file_last_modified )
      ]_vars

\* The task died in load_file; a later write with a new timestamp has restored
\* well-formed bytes, which the store does not hold.
C5_Witness ==
    /\ wpc = "panicked"
    /\ panicAt = "load"
    /\ lastWriteChangedTs
    /\ Decode(file.content).ok
    /\ store # Decode(file.content).val
    /\ store = published[Len(published)]

\* C7: a timestamp read (at the task's start, line 69, or in a poll, line 72) that
\* finds the file gone or its time unreadable ends the task at once, with the
\* store, the lock and the load count untouched.
C7_UnreadableTimestampEndsTask ==
    [][ (wpc \in {"start", "check"} /\ wpc' # wpc /\ TimestampUnreadable)
            => ( /\ wpc' = "panicked"
                 /\ joinResult' = "Err"
                 /\ store' = store
                 /\ published' = published
                 /\ lockQueue' = lockQueue
                 /\ loadCount' = loadCount
                 /\ file_last_modified' = file_last_modified )
      ]_vars

\* The file was deleted between two polls and the second poll ended the task.
C7_Witness ==
    /\ wpc = "panicked"
    /\ panicAt = "check"
    /\ file = NoFile
    /\ checkedSinceWrite
    /\ store = published[Len(published)]

\* C8: an ended task is not in the lock's queue, and a reader that waits for the
\* lock after the task has ended comes to hold it and reads the last value that
\* was put into the store.
C8_DeadTaskNeverBlocksReaders ==
    /\ [](wpc = "panicked" => Watcher \notin Range(lockQueue))
    /\ \A r \in Readers :
          (wpc = "panicked" /\ rpc[r] = "waiting")
              ~> (rpc[r] = "holding" /\ seen[r] = published[Len(published)])

\* The task has ended after a reload and a reader holds the guard.
C8_Witness ==
    /\ wpc = "panicked"
    /\ Len(published) >= 2
    /\ \E r \in Readers : rpc[r] = "holding" /\ seen[r] = published[Len(published)]

C10_TaskEndsOnlyByFailure ==
    [][ /\ (wpc \in RunningPcs /\ wpc' \notin RunningPcs)
            => ( /\ wpc' = "panicked"
                 /\ \/ wpc \in {"start", "check"} /\ TimestampUnreadable
                    \/ wpc = "load" /\ FileUnloadable )
        /\ (wpc = "panicked") => (wpc' = "panicked")
        /\ (wpc' \in RunningPcs) <=> (joinResult' = "pending")
        /\ (wpc' = "panicked") <=> (joinResult' = "Err")
        /\ joinResult' # "Ok"
      ]_vars

\* The task ended at its first statement; the handle has resolved to Err.
C10_Witness ==
    /\ wpc = "panicked"
    /\ panicAt = "start"
    /\ joinResult = "Err"

\* The value put into the store last.
LastPublished == published[Len(published)]

\* The positions between the info! line and the end of the replace.
ReloadingPcs == {"load", "lock", "acquire", "write"}

\* C11: after new(), the store is written only by the spawned task, while it
\* holds the lock, and never in a step of a reader; the task is spawned once, from
\* a monitor that monitor() has not yet consumed, so there is one writer.
C11_OnlyTheOneTaskWritesTheStore ==
    [][ /\ (store' # store \/ published' # published)
            => \/ phase = "init"
               \/ /\ wpc \in {"acquire", "write"}
                  /\ Head(lockQueue) = Watcher
                  /\ rpc' = rpc
                  /\ Len(published') <= Len(published) + 1
        /\ (wpc' = "start") => (wpc \in {"unspawned", "start"})
        /\ (wpc = "unspawned" /\ wpc' # "unspawned")
            => (phase = "constructed" /\ phase' = "monitoring")
        /\ (phase = "monitoring") => (phase' = "monitoring")
      ]_vars

\* The task is replacing the value while a reader that holds the handle waits.
C11_Witness ==
    /\ wpc = "write"
    /\ handle
    /\ Head(lockQueue) = Watcher
    /\ \E r \in Readers : rpc[r] = "waiting"

\* The interval the caller asked for: the argument of new(), or 300 seconds.
PassedOr300 == IF delayArg[1] = "Some" THEN delayArg[2] ELSE 300

\* C12: new() stores the interval it was given, or 300 when it was given None;
\* nothing changes it afterwards, and every sleep of the task is set to end that
\* many seconds after it begins.
C12_IntervalIsTheArgumentOr300 ==
    [][ /\ (phase = "init" /\ phase' = "constructed")
            => recheck_delay_seconds' = PassedOr300'
        /\ (phase # "init")
            => (recheck_delay_seconds' = recheck_delay_seconds /\ delayArg' = delayArg)
        /\ (wpc = "sleep" /\ wpc' = "sleeping")
            => wakeAt' = now + PassedOr300 * TicksPerSec
      ]_vars

\* new() was given None and the task sleeps for 300 seconds.
C12_Witness ==
    /\ wpc = "sleeping"
    /\ delayArg = <<"None">>
    /\ recheck_delay_seconds = 300
    /\ wakeAt >= 300 * TicksPerSec

\* C13 (as claimed): until the task detects a first change, the timestamp it
\* compares with is the one of the file version that new() loaded.
C13_FirstLastSeenIsTheLoadedVersion ==
    (wpc \in RunningPcs /\ wpc # "start" /\ infoCount = 0 /\ ctorFile.mtime >= 0)
        => file_last_modified = AsSecs(ctorFile.mtime)

\* C14 (as claimed): between two iterations the number of info! lines equals the
\* number of replaces: one per successful reload, none for a failed one.
C14_NotificationOnlyForSuccessfulReload ==
    (phase = "monitoring" /\ wpc \notin ReloadingPcs)
        => infoCount = Len(published) - 1

\* C14 (amended): info! is emitted once by every poll that detects a changed
\* timestamp, before the load: the number of info! lines is the number of
\* replaces, plus one while a reload is under way, plus one when the load failed
\* and ended the task; every load is preceded by its info! line.
C14_OneNotificationPerDetectedChange ==
    phase = "monitoring" =>
        /\ infoCount = (Len(published) - 1)
                         + (IF wpc \in ReloadingPcs THEN 1 ELSE 0)
                         + (IF panicAt = "load" THEN 1 ELSE 0)
        /\ loadCount = infoCount - (IF wpc = "load" THEN 1 ELSE 0)

\* One reload succeeded and the next one failed: two info! lines, one replace.
C14_Witness ==
    /\ panicAt = "load"
    /\ infoCount = 2
    /\ Len(published) = 2

\* C15: the task is in the lock's queue only between its lock() call and the end
\* of the replace: never at a timestamp read, at the load or in the sleep.
C15_LockHeldOnlyForTheReplace ==
    (Watcher \in Range(lockQueue)) => (wpc \in {"acquire", "write"})

\* After a reload the task sleeps and a reader holds the lock.
C15_Witness ==
    /\ wpc = "sleeping"
    /\ Len(published) >= 2
    /\ \E r \in Readers : rpc[r] = "holding" /\ seen[r] = LastPublished

\* C16: the loop reads the timestamp only on entry and after a sleep that has run
\* to its deadline; a read is followed by the sleep of its iteration, directly or
\* after the replace has been completed and the lock released; the deadline is
\* the full interval after the start of the sleep, so it is at least the interval
\* after the read, and it does not move while the task sleeps.
C16_OneFullSleepBetweenTimestampReads ==
    [][ /\ (wpc' = "check" /\ wpc # "check")
            => (wpc = "start" \/ (wpc = "sleeping" /\ now >= wakeAt))
        /\ (wpc = "check" /\ wpc' # "check")
            => wpc' \in {"load", "sleep", "panicked"}
        /\ (wpc' = "sleep" /\ wpc # "sleep")
            => \/ wpc = "check"
               \/ wpc = "write" /\ store' = data /\ Watcher \notin Range(lockQueue')
        /\ (wpc' = "sleeping" /\ wpc # "sleeping")
            => ( /\ wpc = "sleep"
                 /\ Watcher \notin Range(lockQueue)
                 /\ wakeAt' = now + recheck_delay_seconds * TicksPerSec )
        /\ (wpc = "sleeping" /\ wpc' = "sleeping") => wakeAt' = wakeAt
        /\ now' >= now
      ]_vars

\* After an iteration that reloaded the file and a sleep of one second the task
\* is about to read the timestamp again.
C16_Witness ==
    /\ wpc = "check"
    /\ recheck_delay_seconds = 1
    /\ Len(published) >= 2
    /\ now >= TicksPerSec

\* C17: a reload that decodes the value the store already holds (the timestamp
\* moved, the bytes did not) leaves the store as it was and the task running.
C17_ReloadOfSameContentChangesNothing ==
    [][ /\ ( /\ wpc = "load"
             /\ wpc' # "load"
             /\ file.exists
             /\ Decode(file.content).ok
             /\ Decode(file.content).val = store )
            => (wpc' = "lock" /\ data' = store)
        /\ (wpc = "write" /\ wpc' # "write" /\ data = LastPublished)
            => (store' = LastPublished /\ wpc' = "sleep" /\ joinResult' = "pending")
      ]_vars

\* The file was written again with the same bytes in a later second, the task
\* has reloaded it and sleeps; the store holds what it held.
C17_Witness ==
    /\ wpc = "sleeping"
    /\ Len(published) = 2
    /\ published[2] = published[1]
    /\ store = published[1]
    /\ file.content = ctorFile.content
    /\ AsSecs(file.mtime) # AsSecs(ctorFile.mtime)

\* C18 (as claimed): while the task sleeps and the timestamp it has seen last is
\* the current one of a well-formed file, the store holds the decode of the
\* file's bytes.
C18_SeenTimestampMeansLoadedContent ==
    ( /\ wpc = "sleeping"
      /\ file.exists
      /\ file.mtime >= 0
      /\ file_last_modified = AsSecs(file.mtime)
      /\ Decode(file.content).ok )
    => store = Decode(file.content).val

\* C19: with two monitors on different files, a step that changes one file, or
\* one monitor's stored value, lastSeen or task state (a reload, a failure),
\* leaves the other monitor's stored value, lastSeen and task state as they
\* were; the monitors hold different Arcs, and each reload stores the decode of
\* the monitor's own file.
C19_MonitorsOnDifferentFilesShareNothing ==
    [][ \A m \in Monitors : \A o \in Monitors \ {m} :
          (pPc[m] # "none" /\ pPc[o] # "none" /\ pFilename[m] # pFilename[o]) =>
            /\ (pFiles'[pFilename[m]] # pFiles[pFilename[m]] \/ MonState(m)' # MonState(m))
                => MonState(o)' = MonState(o)
            /\ (pData[m] # 0 /\ pData[o] # 0) => pData[m] # pData[o]
            /\ (pPc[m] = "load" /\ pPc'[m] = "sleeping")
                => StoreOf(m)' = Decode(pFiles[pFilename[m]].content).val
      ]_vars

\* One monitor's task has failed on its deleted file; the other monitor, on the
\* other file, has reloaded and holds a value the first one never held.
C19_Witness ==
    /\ pFilename["m1"] # pFilename["m2"]
    /\ pPc["m1"] = "panicked"
    /\ ~pFiles[pFilename["m1"]].exists
    /\ pPc["m2"] = "sleeping"
    /\ StoreOf("m2") = Decode(pFiles[pFilename["m2"]].content).val
    /\ StoreOf("m2") # StoreOf("m1")

====
